---- MODULE Spec2Model ----
(***************************************************************************)
(* Model of the multi-provider MCP client (src/unnamed/part_000):          *)
(* the tool catalog (allTools), name resolution (findToolByName),          *)
(* dispatch (callTool), the bounded tool-use loop (processQuery), the      *)
(* interactive loop (chatLoop) and main/cleanup.                           *)
(*                                                                         *)
(* Strings are sequences of one-letter strings, so that split, includes,   *)
(* indexOf, substring, toLowerCase and template concatenation are computed *)
(* as JavaScript computes them.                                            *)
(***************************************************************************)
EXTENDS Integers, Sequences, FiniteSets, TLC

VARIABLES
    mainPc,               \* position of main(): start, multi2, chat, cleanup, done
    mode,                 \* this.mode
    mcpClients,           \* this.mcpClients: keys in insertion order
    allTools,             \* this.allTools: effective names in registration order
    conversationHistory,  \* this.conversationHistory
    pc,                   \* position of processQuery / chatLoop
    iteration,            \* processQuery: let iteration
    finalResponse,        \* processQuery: let finalResponse (sequence of notes)
    response,             \* processQuery: response.content of the current round
    blockIdx,             \* processQuery: cursor of "for (const content of ...)"
    toolUseDetected,      \* processQuery: let toolUseDetected
    fullToolName,         \* processQuery: const fullToolName
    returned,             \* what the last processQuery call returned
    registered,           \* log: the (serverType, tools) of every registration
    resolved,             \* log: the last findToolByName call and its result
    lastCall,             \* log: the last provider handle invocation
    nextId,               \* content blocks the model has sent so far
    queries,              \* queries started so far
    modelCalls,           \* model calls made by the current query
    closed                \* cleanup: handles closed so far

vars == <<mainPc, mode, mcpClients, allTools, conversationHistory, pc, iteration,
          finalResponse, response, blockIdx, toolUseDetected, fullToolName,
          returned, registered, resolved, lastCall, nextId, queries, modelCalls,
          closed>>

(***************************************************************************)
(* Bounds of the model.                                                    *)
(***************************************************************************)
MaxQueries == 2
MaxBlocks == 2
MaxTotalBlocks == 4
MaxProviders == 2
MaxCatalog == 3

(***************************************************************************)
(* Strings.                                                                *)
(***************************************************************************)
sep == "_"

\* String.prototype.toLowerCase, on the letters the model uses
LowerChar(c) ==
    CASE c = "R" -> "r"
      [] c = "W" -> "w"
      [] OTHER -> c

toLowerCase(s) == [i \in 1..Len(s) |-> LowerChar(s[i])]

\* String.prototype.includes
includes(hay, needle) ==
    \E i \in 0..(Len(hay) - Len(needle)) :
        SubSeq(hay, i + 1, i + Len(needle)) = needle

\* String.prototype.indexOf('_'): 0-based, -1 when absent
indexOf(s, c) ==
    LET hits == {i \in 1..Len(s) : s[i] = c}
    IN  IF hits = {} THEN -1
        ELSE (CHOOSE i \in hits : \A j \in hits : i <= j) - 1

\* String.prototype.substring(from[, to]), 0-based, end exclusive
substring(s, from, to) == SubSeq(s, from + 1, to)

\* String.prototype.split('_'): the segments between separators, in order
RECURSIVE split(_)
split(s) ==
    LET k == indexOf(s, sep)
    IN  IF k = -1 THEN <<s>>
        ELSE <<substring(s, 0, k)>> \o split(substring(s, k + 1, Len(s)))

\* parts[parts.length - 1] and split('_').pop()
lastPart(s) == LET parts == split(s) IN parts[Len(parts)]

\* a registration that forgets the prefix
prefixedName_unprefixed(serverType, name) == name

\* `${serverType}_${tool.name}`
prefixedName(serverType, name) == serverType \o <<sep>> \o name

\* the value "undefined": no name of the model has a letter of this shape
Undefined == <<"undefined">>

(***************************************************************************)
(* Name resolution: findToolByName.                                        *)
(***************************************************************************)
\* Array.prototype.find: the first element, in order, that satisfies the
\* callback; hits are the positions whose element satisfies it
find(arr, hits) ==
    IF hits = {} THEN Undefined
    ELSE arr[CHOOSE i \in hits : \A j \in hits : i <= j]

\* tool.name === baseName
exactMatch(name, baseName) == name = baseName

\* parts[parts.length - 1] === baseName
suffixMatch(name, baseName) == lastPart(name) = baseName

\* name.toLowerCase().includes(base) || base.includes(lastPart.toLowerCase())
flexibleMatch(name, baseName) ==
    \/ includes(toLowerCase(name), toLowerCase(baseName))
    \/ includes(toLowerCase(baseName), toLowerCase(lastPart(name)))

\* the suffix strategy tried before the exact one
findToolByName_suffixFirst(tools, baseName) ==
    LET exact == {i \in 1..Len(tools) : exactMatch(tools[i], baseName)}
        suffix == {i \in 1..Len(tools) : suffixMatch(tools[i], baseName)}
        flexible == {i \in 1..Len(tools) : flexibleMatch(tools[i], baseName)}
    IN  IF find(tools, suffix) # Undefined THEN find(tools, suffix)
        ELSE IF find(tools, exact) # Undefined THEN find(tools, exact)
        ELSE IF find(tools, flexible) # Undefined THEN find(tools, flexible)
        ELSE Undefined

\* the flexible strategy tried before the suffix one
findToolByName_flexibleFirst(tools, baseName) ==
    LET exact == {i \in 1..Len(tools) : exactMatch(tools[i], baseName)}
        suffix == {i \in 1..Len(tools) : suffixMatch(tools[i], baseName)}
        flexible == {i \in 1..Len(tools) : flexibleMatch(tools[i], baseName)}
    IN  IF find(tools, exact) # Undefined THEN find(tools, exact)
        ELSE IF find(tools, flexible) # Undefined THEN find(tools, flexible)
        ELSE IF find(tools, suffix) # Undefined THEN find(tools, suffix)
        ELSE Undefined

\* a resolver that falls back to the first tool of the catalog
findToolByName_fallback(tools, baseName) ==
    LET exact == {i \in 1..Len(tools) : exactMatch(tools[i], baseName)}
        suffix == {i \in 1..Len(tools) : suffixMatch(tools[i], baseName)}
        flexible == {i \in 1..Len(tools) : flexibleMatch(tools[i], baseName)}
    IN  IF find(tools, exact) # Undefined THEN find(tools, exact)
        ELSE IF find(tools, suffix) # Undefined THEN find(tools, suffix)
        ELSE IF find(tools, flexible) # Undefined THEN find(tools, flexible)
        ELSE IF tools # <<>> THEN tools[1]
        ELSE Undefined

\* a resolver that hands back the requested name when nothing matches
findToolByName_passThrough(tools, baseName) ==
    LET exact == {i \in 1..Len(tools) : exactMatch(tools[i], baseName)}
        suffix == {i \in 1..Len(tools) : suffixMatch(tools[i], baseName)}
        flexible == {i \in 1..Len(tools) : flexibleMatch(tools[i], baseName)}
    IN  IF find(tools, exact) # Undefined THEN find(tools, exact)
        ELSE IF find(tools, suffix) # Undefined THEN find(tools, suffix)
        ELSE IF find(tools, flexible) # Undefined THEN find(tools, flexible)
        ELSE baseName

findToolByName(tools, baseName) ==
    LET exact == {i \in 1..Len(tools) : exactMatch(tools[i], baseName)}
        suffix == {i \in 1..Len(tools) : suffixMatch(tools[i], baseName)}
        flexible == {i \in 1..Len(tools) : flexibleMatch(tools[i], baseName)}
    IN  IF find(tools, exact) # Undefined THEN find(tools, exact)
        ELSE IF find(tools, suffix) # Undefined THEN find(tools, suffix)
        ELSE IF find(tools, flexible) # Undefined THEN find(tools, flexible)
        ELSE Undefined

(***************************************************************************)
(* Dispatch: callTool.  The result says which handle is invoked with which *)
(* local name, or that callTool throws before it invokes any handle.       *)
(***************************************************************************)
default == <<"d", "e", "f", "a", "u", "l", "t">>

InSeq(x, s) == \E i \in 1..Len(s) : s[i] = x

Throws == [threw |-> TRUE, client |-> Undefined, name |-> Undefined]

Invokes(client, name) == [threw |-> FALSE, client |-> client, name |-> name]

\* the effective name split at its last '_' instead of its first
callTool_lastUnderscore(m, clients, toolName) ==
    IF m = "single"
    THEN IF ~InSeq(default, clients) THEN Throws
         ELSE Invokes(default, toolName)
    ELSE LET hits == {i \in 1..Len(toolName) : toolName[i] = sep}
             lastUnderscoreIndex ==
                 IF hits = {} THEN -1
                 ELSE (CHOOSE i \in hits : \A j \in hits : i >= j) - 1
             serverType == substring(toolName, 0, lastUnderscoreIndex)
             actualToolName ==
                 substring(toolName, lastUnderscoreIndex + 1, Len(toolName))
         IN  IF lastUnderscoreIndex = -1 THEN Throws
             ELSE IF ~InSeq(serverType, clients) THEN Throws
             ELSE Invokes(serverType, actualToolName)

\* a dispatch that strips a prefix in single mode too
callTool_stripsInSingle(m, clients, toolName) ==
    LET firstUnderscoreIndex == indexOf(toolName, sep)
        actualToolName ==
            substring(toolName, firstUnderscoreIndex + 1, Len(toolName))
    IN  IF m = "single"
        THEN IF ~InSeq(default, clients) THEN Throws
             ELSE Invokes(default, actualToolName)
        ELSE IF firstUnderscoreIndex = -1 THEN Throws
             ELSE IF ~InSeq(substring(toolName, 0, firstUnderscoreIndex), clients)
                  THEN Throws
             ELSE Invokes(substring(toolName, 0, firstUnderscoreIndex),
                          actualToolName)

\* a dispatch that falls back on the first handle when the prefix is unknown
callTool_fallsBack(m, clients, toolName) ==
    IF m = "single"
    THEN IF ~InSeq(default, clients) THEN Throws
         ELSE Invokes(default, toolName)
    ELSE LET firstUnderscoreIndex == indexOf(toolName, sep)
             serverType == substring(toolName, 0, firstUnderscoreIndex)
             actualToolName ==
                 substring(toolName, firstUnderscoreIndex + 1, Len(toolName))
         IN  IF clients = <<>> THEN Throws
             ELSE IF firstUnderscoreIndex = -1
                  THEN Invokes(clients[1], toolName)
             ELSE IF ~InSeq(serverType, clients)
                  THEN Invokes(clients[1], actualToolName)
             ELSE Invokes(serverType, actualToolName)

callTool(m, clients, toolName) ==
    IF m = "single"
    THEN IF ~InSeq(default, clients) THEN Throws
         ELSE Invokes(default, toolName)
    ELSE LET firstUnderscoreIndex == indexOf(toolName, sep)
             serverType == substring(toolName, 0, firstUnderscoreIndex)
             actualToolName ==
                 substring(toolName, firstUnderscoreIndex + 1, Len(toolName))
         IN  IF firstUnderscoreIndex = -1 THEN Throws
             ELSE IF ~InSeq(serverType, clients) THEN Throws
             ELSE Invokes(serverType, actualToolName)

\* Map.prototype.set on the keys: a new key goes last, a known key stays put
MapSet(keys, k) == IF InSeq(k, keys) THEN keys ELSE Append(keys, k)

(***************************************************************************)
(* The inputs: server types, the names providers list, the names the model *)
(* asks for, and the content blocks of a model response.                   *)
(***************************************************************************)
filesystem == <<"f">>
github == <<"g">>
custom == <<"f", "_", "w">>

ServerTypes == {filesystem, github, custom}

LocalNames == {<<"r">>, <<"w">>, <<"w", "_", "r">>}

RequestedNames ==
    LocalNames \cup
    { <<"R">>, <<"x">>, <<"f">>, <<"r", "w">>,
      <<"f", "_", "r">>, <<"f", "_", "w", "_", "r">> }

\* the sequences over S of length 0..n
SeqsUpTo(S, n) == UNION {[1..k -> S] : k \in 0..n}

\* what listTools may answer in the registry specification
Listings(n) == SeqsUpTo(LocalNames, n)

\* what listTools answers in the chat specification
ChatListings == { <<<<"w", "_", "r">>>> }

\* what listTools of the github server answers in the chat specification:
\* a name that shares no segment with the other listing
GithubListings == { <<<<"c", "_", "y">>>> }

\* the first server main registers under --multi: filesystem as written, or
\* a custom server (the "else if (target)" branch of connectToMultipleServers)
FirstServers == {filesystem, custom}

\* the names the model asks for in the chat specification
ChatNames == { <<"w", "_", "r">>, <<"x">> }

TextBlock == [type |-> "text", name |-> <<>>]

ToolUseBlock(name) == [type |-> "tool_use", name |-> name]

Blocks == {TextBlock} \cup {ToolUseBlock(n) : n \in ChatNames}

\* response.content with the ids the model gives its tool_use blocks: the
\* serial number of the block, so every id is fresh
WithIds(blocks, first) ==
    [i \in 1..Len(blocks) |->
        [type |-> blocks[i].type,
         name |-> blocks[i].name,
         id |-> IF blocks[i].type = "tool_use" THEN first + i ELSE 0]]

(***************************************************************************)
(* Conversation turns (MessageParam).                                      *)
(***************************************************************************)
UserText ==
    [role |-> "user", type |-> "text", id |-> 0, name |-> <<>>, is_error |-> FALSE]

AssistantText ==
    [role |-> "assistant", type |-> "text", id |-> 0, name |-> <<>>,
     is_error |-> FALSE]

AssistantToolRequest(id, name) ==
    [role |-> "assistant", type |-> "tool_use", id |-> id, name |-> name,
     is_error |-> FALSE]

ToolOutcome(id, isError) ==
    [role |-> "user", type |-> "tool_result", id |-> id, name |-> <<>>,
     is_error |-> isError]

NoCall == [threw |-> FALSE, client |-> <<>>, name |-> <<>>]

NoResolve == [baseName |-> <<>>, result |-> <<>>]

(***************************************************************************)
(* The state after construction: new MCPClient(), main() not yet started.  *)
(***************************************************************************)
Init ==
    /\ mainPc = "start"
    /\ mode = "single"
    /\ mcpClients = <<>>
    /\ allTools = <<>>
    /\ conversationHistory = <<>>
    /\ pc = "none"
    /\ iteration = 0
    /\ finalResponse = <<>>
    /\ response = <<>>
    /\ blockIdx = 0
    /\ toolUseDetected = FALSE
    /\ fullToolName = Undefined
    /\ returned = "none"
    /\ registered = <<>>
    /\ resolved = NoResolve
    /\ lastCall = NoCall
    /\ nextId = 0
    /\ queries = 0
    /\ modelCalls = 0
    /\ closed = <<>>

queryVars == <<conversationHistory, pc, iteration, finalResponse, response,
               blockIdx, toolUseDetected, fullToolName, returned, resolved,
               lastCall, nextId, queries, modelCalls>>

registryVars == <<mode, mcpClients, allTools, registered>>

(***************************************************************************)
(* Registration: connectToServer and connectToMultipleServers, once the    *)
(* provider is connected and listTools has answered `tools`.               *)
(***************************************************************************)
connectToServer(tools) ==
    /\ mode' = "single"
    /\ allTools' = tools
    /\ mcpClients' = MapSet(mcpClients, default)
    /\ registered' = Append(registered, [serverType |-> default, tools |-> tools])

prefixedTools(serverType, tools) ==
    [i \in 1..Len(tools) |-> prefixedName(serverType, tools[i])]

\* a registration that drops the names an earlier provider already listed
connectToMultipleServers_dedups(serverType, tools) ==
    /\ mode' = "multi"
    /\ allTools' =
           allTools \o
           SelectSeq(prefixedTools(serverType, tools),
                     LAMBDA n : ~\E i \in 1..Len(allTools) :
                                    lastPart(allTools[i]) = lastPart(n))
    /\ mcpClients' = MapSet(mcpClients, serverType)
    /\ registered' =
           Append(registered, [serverType |-> serverType, tools |-> tools])

connectToMultipleServers(serverType, tools) ==
    /\ mode' = "multi"
    /\ allTools' = allTools \o prefixedTools(serverType, tools)
    /\ mcpClients' = MapSet(mcpClients, serverType)
    /\ registered' =
           Append(registered, [serverType |-> serverType, tools |-> tools])

(***************************************************************************)
(* main(): one server, or --multi (two servers, the second is github); a   *)
(* connection that throws sends main to cleanup.                           *)
(***************************************************************************)
MainSingle ==
    /\ mainPc = "start"
    /\ \E tools \in ChatListings : connectToServer(tools)
    /\ mainPc' = "chat"
    /\ pc' = "idle"
    /\ UNCHANGED <<conversationHistory, iteration, finalResponse, response,
                   blockIdx, toolUseDetected, fullToolName, returned, resolved,
                   lastCall, nextId, queries, modelCalls, closed>>

MainMultiFirst ==
    /\ mainPc = "start"
    /\ \E serverType \in FirstServers, tools \in ChatListings :
           connectToMultipleServers(serverType, tools)
    /\ mainPc' = "multi2"
    /\ UNCHANGED <<queryVars, closed>>

MainMultiGithub ==
    /\ mainPc = "multi2"
    /\ \E tools \in GithubListings : connectToMultipleServers(github, tools)
    /\ mainPc' = "chat"
    /\ pc' = "idle"
    /\ UNCHANGED <<conversationHistory, iteration, finalResponse, response,
                   blockIdx, toolUseDetected, fullToolName, returned, resolved,
                   lastCall, nextId, queries, modelCalls, closed>>

MainConnectFails ==
    /\ mainPc \in {"start", "multi2"}
    /\ \E m \in {"single", "multi"} :
           /\ mainPc = "multi2" => m = "multi"
           /\ mode' = m
    /\ mainPc' = "cleanup"
    /\ UNCHANGED <<mcpClients, allTools, registered, queryVars, closed>>

(***************************************************************************)
(* processQuery.  Positions: awaitModel (await messages.create), blocks    *)
(* (the for loop over response.content), callTool (await this.callTool),   *)
(* idle (returned to chatLoop, which awaits the next line).                *)
(***************************************************************************)
maxIterations == 3

\* the loop test off by one
loopCondition_inclusive(i) == i <= maxIterations

\* while (iteration < maxIterations)
loopCondition(i) == i < maxIterations

push(turn) == conversationHistory' = Append(conversationHistory, turn)

\* a for loop that walks response.content from its end
content_reversed == response[Len(response) + 1 - blockIdx]

content == response[blockIdx]

\* a chatLoop that does not await processQuery before reading the next line
StartQuery_unawaited ==
    /\ mainPc = "chat"
    /\ queries < MaxQueries
    /\ queries' = queries + 1
    /\ push(UserText)
    /\ finalResponse' = <<>>
    /\ modelCalls' = 0
    /\ iteration' = 1
    /\ pc' = "awaitModel"
    /\ returned' = "pending"
    /\ UNCHANGED <<mainPc, registryVars, response, blockIdx, toolUseDetected,
                   fullToolName, resolved, lastCall, nextId, closed>>

\* a processQuery that starts every query on a fresh history
StartQuery_fresh ==
    /\ mainPc = "chat"
    /\ pc = "idle"
    /\ queries < MaxQueries
    /\ queries' = queries + 1
    /\ conversationHistory' = <<UserText>>
    /\ finalResponse' = <<>>
    /\ modelCalls' = 0
    /\ iteration' = 1
    /\ pc' = "awaitModel"
    /\ returned' = "pending"
    /\ UNCHANGED <<mainPc, registryVars, response, blockIdx, toolUseDetected,
                   fullToolName, resolved, lastCall, nextId, closed>>

\* chatLoop reads a line that is no command and calls processQuery
StartQuery ==
    /\ mainPc = "chat"
    /\ pc = "idle"
    /\ queries < MaxQueries
    /\ queries' = queries + 1
    /\ push(UserText)
    /\ finalResponse' = <<>>
    /\ modelCalls' = 0
    /\ IF loopCondition(0)
       THEN /\ iteration' = 1
            /\ pc' = "awaitModel"
            /\ returned' = "pending"
       ELSE /\ iteration' = 0
            /\ pc' = "idle"
            /\ returned' = "buffer"
    /\ UNCHANGED <<mainPc, registryVars, response, blockIdx, toolUseDetected,
                   fullToolName, resolved, lastCall, nextId, closed>>

\* messages.create resolves with response.content = blocks
ModelResponds ==
    /\ pc = "awaitModel"
    /\ \E blocks \in SeqsUpTo(Blocks, MaxBlocks) :
           /\ nextId + Len(blocks) <= MaxTotalBlocks
           /\ response' = WithIds(blocks, nextId)
           /\ nextId' = nextId + Len(blocks)
    /\ modelCalls' = modelCalls + 1
    /\ toolUseDetected' = FALSE
    /\ blockIdx' = 1
    /\ pc' = "blocks"
    /\ UNCHANGED <<mainPc, registryVars, conversationHistory, iteration,
                   finalResponse, fullToolName, returned, resolved, lastCall,
                   queries, closed>>

\* an outer catch that takes the last turn back
ModelFails_rollback ==
    /\ pc = "awaitModel"
    /\ modelCalls' = modelCalls + 1
    /\ returned' = "error"
    /\ pc' = "idle"
    /\ conversationHistory' =
           SubSeq(conversationHistory, 1, Len(conversationHistory) - 1)
    /\ UNCHANGED <<mainPc, registryVars, iteration, finalResponse, response,
                   blockIdx, toolUseDetected, fullToolName, resolved, lastCall,
                   nextId, queries, closed>>

\* messages.create rejects: the outer catch returns the error text
ModelFails ==
    /\ pc = "awaitModel"
    /\ modelCalls' = modelCalls + 1
    /\ returned' = "error"
    /\ pc' = "idle"
    /\ UNCHANGED <<mainPc, registryVars, conversationHistory, iteration,
                   finalResponse, response, blockIdx, toolUseDetected,
                   fullToolName, resolved, lastCall, nextId, queries, closed>>

\* content.type === "text"
TextStep ==
    /\ pc = "blocks"
    /\ blockIdx <= Len(response)
    /\ content.type = "text"
    /\ finalResponse' = Append(finalResponse, "text")
    /\ push(AssistantText)
    /\ blockIdx' = blockIdx + 1
    /\ UNCHANGED <<mainPc, registryVars, pc, iteration, response,
                   toolUseDetected, fullToolName, returned, resolved, lastCall,
                   nextId, queries, modelCalls, closed>>

\* content.type === "tool_use", up to the await of this.callTool
ToolUseStep ==
    /\ pc = "blocks"
    /\ blockIdx <= Len(response)
    /\ content.type = "tool_use"
    /\ toolUseDetected' = TRUE
    /\ LET found == findToolByName(allTools, content.name)
       IN  /\ resolved' = [baseName |-> content.name, result |-> found]
           /\ IF found = Undefined
              THEN /\ finalResponse' = Append(finalResponse, "notfound")
                   /\ push(ToolOutcome(content.id, TRUE))
                   /\ blockIdx' = blockIdx + 1
                   /\ UNCHANGED <<pc, fullToolName>>
              ELSE /\ push(AssistantToolRequest(content.id, content.name))
                   /\ fullToolName' = found
                   /\ pc' = "callTool"
                   /\ UNCHANGED <<finalResponse, blockIdx>>
    /\ UNCHANGED <<mainPc, registryVars, iteration, response, returned,
                   lastCall, nextId, queries, modelCalls, closed>>

\* a try block that keeps the result out of the history
toolSucceeded_unrecorded ==
    /\ UNCHANGED conversationHistory
    /\ finalResponse' = Append(finalResponse, "used")

\* the try block completes: the handle answered
toolSucceeded ==
    /\ push(ToolOutcome(content.id, FALSE))
    /\ finalResponse' = Append(finalResponse, "used")

\* a catch block that only reports the failure
toolFailed_unrecorded ==
    /\ UNCHANGED conversationHistory
    /\ finalResponse' = Append(finalResponse, "toolerror")

\* the catch block of the tool call
toolFailed ==
    /\ push(ToolOutcome(content.id, TRUE))
    /\ finalResponse' = Append(finalResponse, "toolerror")

\* callTool throws before it reaches a handle
CallToolThrows ==
    /\ pc = "callTool"
    /\ callTool(mode, mcpClients, fullToolName).threw
    /\ lastCall' = callTool(mode, mcpClients, fullToolName)
    /\ toolFailed
    /\ blockIdx' = blockIdx + 1
    /\ pc' = "blocks"
    /\ UNCHANGED <<mainPc, registryVars, iteration, response, toolUseDetected,
                   fullToolName, returned, resolved, nextId, queries,
                   modelCalls, closed>>

\* callTool invokes a handle, which answers
ToolReturns ==
    /\ pc = "callTool"
    /\ ~callTool(mode, mcpClients, fullToolName).threw
    /\ lastCall' = callTool(mode, mcpClients, fullToolName)
    /\ toolSucceeded
    /\ blockIdx' = blockIdx + 1
    /\ pc' = "blocks"
    /\ UNCHANGED <<mainPc, registryVars, iteration, response, toolUseDetected,
                   fullToolName, returned, resolved, nextId, queries,
                   modelCalls, closed>>

\* a tool call outside any try block: the outer catch ends the query
ToolThrows_fatal ==
    /\ pc = "callTool"
    /\ ~callTool(mode, mcpClients, fullToolName).threw
    /\ lastCall' = callTool(mode, mcpClients, fullToolName)
    /\ returned' = "error"
    /\ pc' = "idle"
    /\ UNCHANGED <<mainPc, registryVars, conversationHistory, iteration,
                   finalResponse, response, blockIdx, toolUseDetected,
                   fullToolName, resolved, nextId, queries, modelCalls, closed>>

\* callTool invokes a handle, which throws
ToolThrows ==
    /\ pc = "callTool"
    /\ ~callTool(mode, mcpClients, fullToolName).threw
    /\ lastCall' = callTool(mode, mcpClients, fullToolName)
    /\ toolFailed
    /\ blockIdx' = blockIdx + 1
    /\ pc' = "blocks"
    /\ UNCHANGED <<mainPc, registryVars, iteration, response, toolUseDetected,
                   fullToolName, returned, resolved, nextId, queries,
                   modelCalls, closed>>

\* a loop without the break: only the while test ends it
EndRound_noBreak ==
    /\ pc = "blocks"
    /\ blockIdx > Len(response)
    /\ finalResponse' =
           IF iteration = maxIterations
           THEN Append(finalResponse, "max")
           ELSE finalResponse
    /\ IF loopCondition(iteration)
       THEN /\ iteration' = iteration + 1
            /\ pc' = "awaitModel"
            /\ UNCHANGED returned
       ELSE /\ returned' = "buffer"
            /\ pc' = "idle"
            /\ UNCHANGED iteration
    /\ UNCHANGED <<mainPc, registryVars, conversationHistory, response,
                   blockIdx, toolUseDetected, fullToolName, resolved, lastCall,
                   nextId, queries, modelCalls, closed>>

\* a truncation notice that comes one round early
EndRound_earlyNotice ==
    /\ pc = "blocks"
    /\ blockIdx > Len(response)
    /\ IF ~toolUseDetected
       THEN /\ returned' = "buffer"
            /\ pc' = "idle"
            /\ UNCHANGED <<iteration, finalResponse>>
       ELSE /\ finalResponse' =
                   IF iteration = maxIterations - 1
                   THEN Append(finalResponse, "max")
                   ELSE finalResponse
            /\ IF loopCondition(iteration)
               THEN /\ iteration' = iteration + 1
                    /\ pc' = "awaitModel"
                    /\ UNCHANGED returned
               ELSE /\ returned' = "buffer"
                    /\ pc' = "idle"
                    /\ UNCHANGED iteration
    /\ UNCHANGED <<mainPc, registryVars, conversationHistory, response,
                   blockIdx, toolUseDetected, fullToolName, resolved, lastCall,
                   nextId, queries, modelCalls, closed>>

\* after the for loop: break, or the truncation notice, then the while test
EndRound ==
    /\ pc = "blocks"
    /\ blockIdx > Len(response)
    /\ IF ~toolUseDetected
       THEN /\ returned' = "buffer"
            /\ pc' = "idle"
            /\ UNCHANGED <<iteration, finalResponse>>
       ELSE /\ finalResponse' =
                   IF iteration = maxIterations
                   THEN Append(finalResponse, "max")
                   ELSE finalResponse
            /\ IF loopCondition(iteration)
               THEN /\ iteration' = iteration + 1
                    /\ pc' = "awaitModel"
                    /\ UNCHANGED returned
               ELSE /\ returned' = "buffer"
                    /\ pc' = "idle"
                    /\ UNCHANGED iteration
    /\ UNCHANGED <<mainPc, registryVars, conversationHistory, response,
                   blockIdx, toolUseDetected, fullToolName, resolved, lastCall,
                   nextId, queries, modelCalls, closed>>

(***************************************************************************)
(* chatLoop commands that change state, and cleanup.                       *)
(***************************************************************************)
\* a clear that keeps the first turn
Clear_keepsFirst ==
    /\ mainPc = "chat"
    /\ pc = "idle"
    /\ conversationHistory # <<>>
    /\ conversationHistory' = <<conversationHistory[1]>>
    /\ UNCHANGED <<mainPc, registryVars, pc, iteration, finalResponse, response,
                   blockIdx, toolUseDetected, fullToolName, returned, resolved,
                   lastCall, nextId, queries, modelCalls, closed>>

Clear ==
    /\ mainPc = "chat"
    /\ pc = "idle"
    /\ conversationHistory # <<>>
    /\ conversationHistory' = <<>>
    /\ UNCHANGED <<mainPc, registryVars, pc, iteration, finalResponse, response,
                   blockIdx, toolUseDetected, fullToolName, returned, resolved,
                   lastCall, nextId, queries, modelCalls, closed>>

Quit ==
    /\ mainPc = "chat"
    /\ pc = "idle"
    /\ mainPc' = "cleanup"
    /\ pc' = "none"
    /\ UNCHANGED <<registryVars, conversationHistory, iteration, finalResponse,
                   response, blockIdx, toolUseDetected, fullToolName, returned,
                   resolved, lastCall, nextId, queries, modelCalls, closed>>

\* for (... of this.mcpClients.entries()) await client.close()
CleanupClose ==
    /\ mainPc = "cleanup"
    /\ Len(closed) < Len(mcpClients)
    /\ closed' = Append(closed, mcpClients[Len(closed) + 1])
    /\ UNCHANGED <<mainPc, registryVars, queryVars>>

\* a close() that throws leaves the loop through the catch
CleanupCloseFails ==
    /\ mainPc = "cleanup"
    /\ Len(closed) < Len(mcpClients)
    /\ mainPc' = "done"
    /\ UNCHANGED <<registryVars, queryVars, closed>>

CleanupDone ==
    /\ mainPc = "cleanup"
    /\ Len(closed) = Len(mcpClients)
    /\ mainPc' = "done"
    /\ UNCHANGED <<registryVars, queryVars, closed>>

Next ==
    \/ MainSingle
    \/ MainMultiFirst
    \/ MainMultiGithub
    \/ MainConnectFails
    \/ StartQuery
    \/ ModelResponds
    \/ ModelFails
    \/ TextStep
    \/ ToolUseStep
    \/ CallToolThrows
    \/ ToolReturns
    \/ ToolThrows
    \/ EndRound
    \/ Clear
    \/ Quit
    \/ CleanupClose
    \/ CleanupCloseFails
    \/ CleanupDone

Spec == Init /\ [][Next]_vars

(***************************************************************************)
(* The registry on its own: any server types and listings are registered   *)
(* (one connectToServer, or a series of connectToMultipleServers), then    *)
(* findToolByName is applied to any requested name, or callTool to a       *)
(* catalog entry or to any requested name, once per behaviour.             *)
(***************************************************************************)
RegisterSingle ==
    /\ registered = <<>>
    /\ resolved = NoResolve
    /\ lastCall = NoCall
    /\ \E tools \in Listings(MaxCatalog) : connectToServer(tools)
    /\ UNCHANGED <<mainPc, queryVars, closed>>

RegisterMulti ==
    /\ registered = <<>> \/ mode = "multi"
    /\ resolved = NoResolve
    /\ lastCall = NoCall
    /\ Len(registered) < MaxProviders
    /\ \E serverType \in ServerTypes,
          tools \in Listings(MaxCatalog - Len(allTools)) :
           connectToMultipleServers(serverType, tools)
    /\ UNCHANGED <<mainPc, queryVars, closed>>

Resolve ==
    /\ resolved = NoResolve
    /\ lastCall = NoCall
    /\ \E baseName \in RequestedNames :
           resolved' = [baseName |-> baseName,
                        result |-> findToolByName(allTools, baseName)]
    /\ UNCHANGED <<mainPc, registryVars, conversationHistory, pc, iteration,
                   finalResponse, response, blockIdx, toolUseDetected,
                   fullToolName, returned, lastCall, nextId, queries,
                   modelCalls, closed>>

\* this.callTool(toolName, args), up to the invocation of the handle
Dispatch ==
    /\ resolved = NoResolve
    /\ lastCall = NoCall
    /\ \E toolName \in {allTools[i] : i \in 1..Len(allTools)} \cup RequestedNames :
           /\ fullToolName' = toolName
           /\ lastCall' = callTool(mode, mcpClients, toolName)
    /\ UNCHANGED <<mainPc, registryVars, conversationHistory, pc, iteration,
                   finalResponse, response, blockIdx, toolUseDetected,
                   returned, resolved, nextId, queries, modelCalls, closed>>

RegistryNext ==
    \/ RegisterSingle
    \/ RegisterMulti
    \/ Resolve
    \/ Dispatch

SpecRegistry == Init /\ [][RegistryNext]_vars

(***************************************************************************)
(* Properties of processQuery.                                             *)
(***************************************************************************)
h == conversationHistory

isRequest(i) == h[i].type = "tool_use"

isOutcome(i) == h[i].type = "tool_result"

OutcomesOf(id) == {j \in 1..Len(h) : isOutcome(j) /\ h[j].id = id}

\* C1: whenever a model call is about to be made or the query has returned,
\* every tool_use turn of the history is followed by exactly one tool_result
\* turn with its id; and at no time do two tool_result turns share an id.
C1_RequestHasOneOutcome ==
    /\ pc \in {"awaitModel", "idle", "none"} =>
           \A i \in 1..Len(h) :
               isRequest(i) =>
                   /\ Cardinality(OutcomesOf(h[i].id)) = 1
                   /\ \A j \in OutcomesOf(h[i].id) : j > i
    /\ \A j, k \in 1..Len(h) :
           (isOutcome(j) /\ isOutcome(k) /\ h[j].id = h[k].id) => j = k

\* a query has returned whose history holds a request answered by an error
\* outcome and a request answered by a success outcome
C1_Witness ==
    /\ pc = "idle"
    /\ \E i, k \in 1..(Len(h) - 1) :
           /\ isRequest(i) /\ isOutcome(i + 1) /\ h[i + 1].id = h[i].id
           /\ h[i + 1].is_error
           /\ isRequest(k) /\ isOutcome(k + 1) /\ h[k + 1].id = h[k].id
           /\ ~h[k + 1].is_error

\* C2: every tool_result turn of the history is preceded by a tool_use turn
\* with the same id (the request is recorded before resolution is attempted).
C2_OutcomeHasRequest ==
    \A j \in 1..Len(h) :
        isOutcome(j) => \E i \in 1..(j - 1) : isRequest(i) /\ h[i].id = h[j].id

\* C3: a query makes at most maxIterations model calls; the round counter is
\* the number of model calls of the current query (so it restarts with each
\* query) and stays within 0..maxIterations; after the last allowed call no
\* further call is pending.
C3_AtMostMaxModelCalls ==
    /\ modelCalls <= maxIterations
    /\ iteration \in 0..maxIterations
    /\ pc = "awaitModel" => iteration = modelCalls + 1
    /\ pc \in {"blocks", "callTool"} => iteration = modelCalls
    /\ (pc = "idle" /\ returned = "buffer") => iteration = modelCalls

\* the second query has used all its rounds, the model still asking for tools
C3_Witness ==
    /\ queries = 2
    /\ pc = "idle"
    /\ returned = "buffer"
    /\ modelCalls = maxIterations
    /\ toolUseDetected

notFoundStep ==
    /\ ToolUseStep
    /\ findToolByName(allTools, content.name) = Undefined

\* C4: a step in which resolution finds nothing, callTool throws or the
\* handle throws appends exactly one error outcome for the block, moves on to
\* the next block of the same response with tool use marked, and does not
\* end the query; after such a round another model call follows while
\* iteration < maxIterations; the error text is returned only from a step
\* that was awaiting the model.
C4_ToolFailureNotFatal ==
    /\ [][(notFoundStep \/ CallToolThrows \/ ToolThrows) =>
            /\ conversationHistory' = Append(h, ToolOutcome(content.id, TRUE))
            /\ pc' = "blocks"
            /\ blockIdx' = blockIdx + 1
            /\ toolUseDetected'
            /\ returned' = "pending"
            /\ Len(finalResponse') = Len(finalResponse) + 1]_vars
    /\ [][(pc = "blocks" /\ blockIdx > Len(response) /\ toolUseDetected
            /\ iteration < maxIterations) => pc' = "awaitModel"]_vars
    /\ [][(returned # "error" /\ returned' = "error") => pc = "awaitModel"]_vars

\* a query returned its buffer after a round whose first block was not
\* found and whose second block failed in the handle, and a later round
C4_Witness ==
    /\ pc = "idle"
    /\ returned = "buffer"
    /\ modelCalls >= 2
    /\ Len(finalResponse) >= 3
    /\ finalResponse[1] = "notfound"
    /\ finalResponse[2] = "toolerror"
    /\ finalResponse[3] = "text"

\* the turns a note of the response buffer stands for
turnsOf(note) ==
    CASE note = "text" -> 1
      [] note = "notfound" -> 1
      [] note = "used" -> 2
      [] note = "toolerror" -> 2
      [] OTHER -> 0

RECURSIVE turnsOfAll(_)
turnsOfAll(notes) ==
    IF notes = <<>> THEN 0
    ELSE turnsOf(Head(notes)) + turnsOfAll(Tail(notes))

\* the history ends with the query's UserText turn and the turns of its rounds
queryTurnsRetained ==
    LET n == turnsOfAll(finalResponse)
    IN  /\ Len(h) >= n + 1
        /\ h[Len(h) - n] = UserText
        /\ \A i \in (Len(h) - n + 1)..Len(h) : h[i] # UserText

\* C5: the step in which a model call fails leaves the history as it was,
\* with the query's UserText turn and the turns of the earlier rounds, and
\* returns the error text; once the error is returned the query makes no
\* further step, and the next query can start.
C5_ModelFailureKeepsHistory ==
    /\ [][(pc = "awaitModel" /\ pc' = "idle") =>
            /\ conversationHistory' = conversationHistory
            /\ queryTurnsRetained'
            /\ returned' = "error"]_vars
    /\ [](returned = "error" => pc \in {"idle", "none"})
    /\ []((returned = "error" /\ pc = "idle" /\ queries < MaxQueries)
            => ENABLED StartQuery)

\* a model call failed in a round after the first, turns of round 1 retained
C5_Witness ==
    /\ pc = "idle"
    /\ returned = "error"
    /\ modelCalls >= 2
    /\ Len(h) >= 3
    /\ queryTurnsRetained

(***************************************************************************)
(* Properties of the registry and of findToolByName.                       *)
(***************************************************************************)
\* the (registration, position) pairs: one per catalog entry in multi mode
Entries == {e \in (1..Len(registered)) \X (1..MaxCatalog + 1) :
                e[2] <= Len(registered[e[1]].tools)}

providerOf(e) == registered[e[1]].serverType

localOf(e) == registered[e[1]].tools[e[2]]

hasResolved == resolved # NoResolve

exactHits == {i \in 1..Len(allTools) : allTools[i] = resolved.baseName}

suffixHits ==
    {i \in 1..Len(allTools) : lastPart(allTools[i]) = resolved.baseName}

flexibleHits ==
    {i \in 1..Len(allTools) :
        \/ includes(toLowerCase(allTools[i]), toLowerCase(resolved.baseName))
        \/ includes(toLowerCase(resolved.baseName),
                    toLowerCase(lastPart(allTools[i])))}

\* C6: in multi mode every registered (p, t) has p_t in the catalog, and a
\* request for the bare name t, when no other entry has local name t,
\* returns p_t, found by the suffix strategy.
C6_BareNameResolvesBySuffix ==
    mode = "multi" =>
        \A e \in Entries :
            LET effective == providerOf(e) \o <<"_">> \o localOf(e)
            IN  /\ InSeq(effective, allTools)
                /\ ( /\ hasResolved
                     /\ resolved.baseName = localOf(e)
                     /\ \A o \in Entries : localOf(o) = localOf(e) => o = e )
                   => /\ resolved.result = effective
                      /\ exactHits = {}
                      /\ \E i \in suffixHits : allTools[i] = effective

\* C7: a requested name that is the effective name of a catalog entry is
\* returned unchanged.
C7_ExactNameUnchanged ==
    (hasResolved /\ InSeq(resolved.baseName, allTools))
        => resolved.result = resolved.baseName

\* the requested name is an entry, and an earlier entry matches it by suffix
C7_Witness ==
    /\ hasResolved
    /\ \E i, j \in 1..Len(allTools) :
           /\ i < j
           /\ allTools[j] = resolved.baseName
           /\ allTools[i] # resolved.baseName
           /\ i \in suffixHits

\* C8: the result is the first entry, in registration order, that satisfies
\* the highest-priority strategy (exact, suffix, flexible) any entry
\* satisfies, and NotFound when no entry satisfies any.
C8_FirstEntryOfBestStrategy ==
    hasResolved =>
        LET winners == IF exactHits # {} THEN exactHits
                       ELSE IF suffixHits # {} THEN suffixHits
                       ELSE flexibleHits
        IN  IF winners = {} THEN resolved.result = Undefined
            ELSE \E i \in winners :
                     /\ \A j \in winners : i <= j
                     /\ resolved.result = allTools[i]

\* a later entry wins by suffix over an earlier entry that matches only
\* by the flexible strategy
C8_Witness ==
    /\ hasResolved
    /\ exactHits = {}
    /\ \E i, j \in 1..Len(allTools) :
           /\ i < j
           /\ i \in flexibleHits \ suffixHits
           /\ j \in suffixHits
           /\ resolved.result = allTools[j]
           /\ allTools[i] # allTools[j]

\* C9: when no entry satisfies the exact, suffix or flexible strategy, the
\* result is the value NotFound.
C9_NoMatchIsNotFound ==
    (hasResolved /\ exactHits = {} /\ suffixHits = {} /\ flexibleHits = {})
        => resolved.result = Undefined

\* nothing matches in a catalog that is not empty
C9_Witness ==
    /\ hasResolved
    /\ allTools # <<>>
    /\ exactHits = {} /\ suffixHits = {} /\ flexibleHits = {}
    /\ resolved.result = Undefined

eachProviderOnce ==
    \A a, b \in 1..Len(registered) :
        registered[a].serverType = registered[b].serverType => a = b

localNamesUnique ==
    \A e, o \in Entries :
        (e[1] = o[1] /\ localOf(e) = localOf(o)) => e = o

namesDistinct ==
    \A i, j \in 1..Len(allTools) : allTools[i] = allTools[j] => i = j

\* C10 as stated: in multi mode, with every provider id registered once and
\* local names unique within each provider, the effective names are
\* pairwise distinct, whatever the provider ids and local names.
C10_EffectiveNamesDistinct ==
    (mode = "multi" /\ eachProviderOnce /\ localNamesUnique) => namesDistinct

\* C10 amended: the same, for provider ids that do not contain '_'.
C10_DistinctForPlainProviderIds ==
    ( /\ mode = "multi"
      /\ eachProviderOnce
      /\ localNamesUnique
      /\ \A a \in 1..Len(registered) :
             ~includes(registered[a].serverType, <<"_">>) )
        => namesDistinct

\* two providers list the same local name, one that contains '_'
C10_Witness ==
    /\ mode = "multi"
    /\ eachProviderOnce
    /\ localNamesUnique
    /\ \A a \in 1..Len(registered) :
           ~includes(registered[a].serverType, <<"_">>)
    /\ \E e, o \in Entries :
           /\ e[1] # o[1]
           /\ localOf(e) = localOf(o)
           /\ includes(localOf(e), <<"_">>)
    /\ Len(allTools) = MaxCatalog

(***************************************************************************)
(* Properties of callTool.                                                 *)
(***************************************************************************)
hasDispatched == lastCall # NoCall

plainProviderIds ==
    \A a \in 1..Len(registered) : ~includes(registered[a].serverType, <<"_">>)

\* the handle callTool must reach for entry e, with the local name of e
roundTrip(e) ==
    fullToolName = providerOf(e) \o <<"_">> \o localOf(e)
        => /\ ~lastCall.threw
           /\ lastCall.client = providerOf(e)
           /\ lastCall.name = localOf(e)

\* C11 as stated: in multi mode, callTool on the effective name p_t of any
\* registered provider p and local name t invokes the handle of p, and no
\* other, with local name t.
C11_DispatchRoundTrip ==
    (mode = "multi" /\ hasDispatched) => \A e \in Entries : roundTrip(e)

\* C11 amended: the same, for provider ids that do not contain '_'.
C11_RoundTripForPlainProviderIds ==
    (mode = "multi" /\ hasDispatched /\ plainProviderIds)
        => \A e \in Entries : roundTrip(e)

\* callTool was applied to the effective name of a local name with '_',
\* listed by the second of two providers
C11_Witness ==
    /\ mode = "multi"
    /\ hasDispatched
    /\ plainProviderIds
    /\ \E e \in Entries :
           /\ e[1] = 2
           /\ includes(localOf(e), <<"_">>)
           /\ fullToolName = providerOf(e) \o <<"_">> \o localOf(e)
           /\ lastCall = Invokes(providerOf(e), localOf(e))

(***************************************************************************)
(* The scenario of main --multi: filesystem lists w_r (write_file), github *)
(* lists c_y (create_repository), and the model asks for w_r.              *)
(***************************************************************************)
scenario ==
    /\ mode = "multi"
    /\ mcpClients = <<filesystem, github>>
    /\ allTools = << <<"f", "_", "w", "_", "r">>, <<"g", "_", "c", "_", "y">> >>
    /\ resolved.baseName = <<"w", "_", "r">>

\* C12: with catalog [f_w_r, g_c_y] the request w_r is resolved to f_w_r by
\* the suffix strategy, and the dispatch of that name invokes the handle of
\* filesystem with local name w_r.
C12_ScenarioResolvedBySuffix ==
    scenario =>
        /\ resolved.result = <<"f", "_", "w", "_", "r">>
        /\ exactHits = {}
        /\ \E i \in suffixHits : allTools[i] = resolved.result
        /\ (pc # "callTool" /\ hasDispatched)
               => lastCall = Invokes(filesystem, <<"w", "_", "r">>)

(***************************************************************************)
(* Properties of the conversation history and of chatLoop.                 *)
(***************************************************************************)
\* C13: the clear command leaves the history empty; a query that starts on
\* an empty history sends its first model call exactly one turn, the new
\* UserText turn; and every turn appended later is a text turn or carries
\* the id of the block being processed, never a turn of an earlier history.
C13_ClearEmptiesHistory ==
    /\ [][Clear => conversationHistory' = <<>>]_vars
    /\ [][(conversationHistory = <<>> /\ queries' = queries + 1) =>
            /\ conversationHistory' = <<UserText>>
            /\ pc' = "awaitModel"
            /\ modelCalls' = 0]_vars
    /\ [][Len(conversationHistory') > Len(h) =>
            LET t == conversationHistory'[Len(conversationHistory')]
            IN  /\ Len(conversationHistory') = Len(h) + 1
                /\ \/ t \in {UserText, AssistantText}
                   \/ /\ pc \in {"blocks", "callTool"}
                      /\ t.id = content.id
                      /\ t.id > nextId - Len(response)]_vars

\* the second query, started after a clear of a history that held the turns
\* of a first query with content blocks, awaits its first model call
C13_Witness ==
    /\ queries = 2
    /\ pc = "awaitModel"
    /\ modelCalls = 0
    /\ nextId > 0
    /\ h = <<UserText>>

isPrefixOf(a, b) == Len(a) <= Len(b) /\ SubSeq(b, 1, Len(a)) = a

\* C14: the history is append-only except for clear: every step leaves the
\* old history as a prefix of the new one (nothing removed, modified,
\* reordered or deduplicated), unless it is the clear command, read by
\* chatLoop between queries, which removes all turns at once.
C14_AppendOnlyExceptClear ==
    [][\/ isPrefixOf(h, conversationHistory')
       \/ /\ mainPc = "chat" /\ pc = "idle"
          /\ conversationHistory' = <<>>
          /\ UNCHANGED <<pc, queries, returned, finalResponse>>]_vars

\* a second query runs on top of a history that holds a tool success, a tool
\* failure and the turns of a query that a model failure ended
C14_Witness ==
    /\ queries = 2
    /\ returned = "error"
    /\ Len(h) >= 6
    /\ \E i, j \in 1..Len(h) : /\ isOutcome(i) /\ h[i].is_error
                               /\ isOutcome(j) /\ ~h[j].is_error

(***************************************************************************)
(* Properties of the rounds of processQuery.                               *)
(***************************************************************************)
\* the response of the round in hand holds a tool_use block
requestsTool == \E i \in 1..Len(response) : response[i].type = "tool_use"

\* the for loop over response.content is finished
roundDone == pc = "blocks" /\ blockIdx > Len(response)

\* C15: a round whose response holds no tool_use block is the last round of
\* the query: the step after its blocks returns the buffer, whatever
\* iteration and maxIterations are, and no further model call is made; a
\* text-only first response ends the query after exactly one model call.
C15_RoundWithoutToolUseIsLast ==
    [][(roundDone /\ ~requestsTool /\ pc' # pc) =>
          /\ pc' = "idle"
          /\ returned' = "buffer"
          /\ modelCalls' = modelCalls
          /\ iteration = 1 => modelCalls' = 1]_vars

\* a query returned after its second round, a round without tool_use block,
\* with an iteration left
C15_Witness ==
    /\ pc = "idle"
    /\ returned = "buffer"
    /\ modelCalls = 2
    /\ iteration < maxIterations
    /\ Len(response) > 0
    /\ ~requestsTool

\* processQuery has returned its buffer
returnedBuffer == pc = "idle" /\ returned = "buffer" /\ queries > 0

hasNotice == \E i \in 1..Len(finalResponse) : finalResponse[i] = "max"

\* C16: the returned answer holds the truncation notice exactly when the
\* round with iteration = maxIterations held a tool_use block; it is absent
\* when the loop ended on a round without one, round maxIterations included.
C16_NoticeIffLastRoundUsedTool ==
    returnedBuffer =>
        /\ hasNotice <=> (iteration = maxIterations /\ requestsTool)
        /\ Cardinality({i \in 1..Len(finalResponse) : finalResponse[i] = "max"}) <= 1

\* the query returned with the notice after a third round with a tool_use
C16_Witness ==
    /\ returnedBuffer
    /\ iteration = maxIterations
    /\ requestsTool
    /\ hasNotice

\* the query returned without notice from a third round without tool_use
C16_WitnessAbsent ==
    /\ returnedBuffer
    /\ iteration = maxIterations
    /\ ~requestsTool
    /\ ~hasNotice

(***************************************************************************)
(* Properties of callTool.                                                 *)
(***************************************************************************)
\* C17: in single mode, once the provider is connected, callTool invokes
\* the sole handle, kept under the id "default", with the tool name it was
\* given, unchanged, also when the name contains '_'.
C17_SingleModeCallsDefaultUnchanged ==
    (mode = "single" /\ registered # <<>> /\ hasDispatched) =>
        /\ mcpClients = <<default>>
        /\ ~lastCall.threw
        /\ lastCall = Invokes(default, fullToolName)

\* a name with two '_' was dispatched in single mode
C17_Witness ==
    /\ mode = "single"
    /\ registered # <<>>
    /\ hasDispatched
    /\ fullToolName = <<"f", "_", "w", "_", "r">>
    /\ lastCall.name = fullToolName

\* the part of name before its first '_' is no key of mcpClients, or name
\* holds no '_' at all
unroutable(name) ==
    \/ ~includes(name, <<sep>>)
    \/ ~InSeq(split(name)[1], mcpClients)

\* C18: in multi mode callTool throws, reaching no handle, for every name
\* without '_' and every name whose part before the first '_' is no
\* registered provider id; when that happens inside processQuery the
\* failure is appended as a tool_result turn with is_error and the query
\* goes on with the next block.
C18_UnknownProviderIsToolError ==
    /\ [](mode = "multi" =>
            \A name \in RequestedNames \cup {allTools[i] : i \in 1..Len(allTools)} :
                unroutable(name) => callTool(mode, mcpClients, name) = Throws)
    /\ [][(mode = "multi" /\ pc = "callTool" /\ unroutable(fullToolName)
           /\ pc' # pc) =>
            /\ lastCall' = Throws
            /\ conversationHistory' = Append(h, ToolOutcome(content.id, TRUE))
            /\ pc' = "blocks"
            /\ blockIdx' = blockIdx + 1
            /\ returned' = "pending"
            /\ modelCalls' = modelCalls]_vars

\* a query returned its buffer after callTool threw on a catalog name whose
\* first segment is no provider id
C18_Witness ==
    /\ mode = "multi"
    /\ returnedBuffer
    /\ lastCall = Throws
    /\ includes(fullToolName, <<sep>>)
    /\ unroutable(fullToolName)
    /\ \E i \in 1..Len(h) : isOutcome(i) /\ h[i].is_error

(***************************************************************************)
(* Properties of the control flow.                                         *)
(***************************************************************************)
inQuery == pc \in {"awaitModel", "blocks", "callTool"}

\* C19: chatLoop handles one line at a time: a query is in progress exactly
\* between its start and its return, no query starts and no clear takes
\* effect while one is in progress, and a query that ends, by its buffer or
\* by the error text, leaves chatLoop at its prompt.
C19_OneLineAtATime ==
    /\ [](inQuery <=> returned = "pending")
    /\ [][(queries' # queries \/ Len(conversationHistory') < Len(h)) =>
            /\ ~inQuery
            /\ returned \in {"none", "buffer", "error"}]_vars
    /\ [][(inQuery /\ ~inQuery') =>
            /\ pc' = "idle"
            /\ returned' \in {"buffer", "error"}
            /\ queries' = queries]_vars

\* the second query is at a tool call, the first one having returned
C19_Witness ==
    /\ queries = 2
    /\ pc = "callTool"
    /\ returned = "pending"
    /\ Len(h) >= 4

\* the tool_use turns of the history that no tool_result turn answers
pending ==
    {i \in 1..Len(h) :
        isRequest(i) /\ ~\E k \in 1..Len(h) : isOutcome(k) /\ h[k].id = h[i].id}

\* the turn that processing block b appends first
turnFor(b, t) ==
    IF b.type = "text" THEN t = AssistantText
    ELSE t.id = b.id /\ t.type \in {"tool_use", "tool_result"}

\* C20: within a round the blocks are processed in the order received and
\* one operation at most is outstanding: blockIdx goes up by one from 1;
\* every turn a round appends belongs to the block at blockIdx, so the turns
\* follow the order of the blocks; while a tool invocation is outstanding its
\* request is the only unanswered one and every earlier tool_use block of
\* the response has its tool_result turn; no request is unanswered while a
\* model call is outstanding or between blocks.
C20_BlocksInOrderOneOutstanding ==
    /\ [][blockIdx' # blockIdx =>
            \/ pc = "awaitModel" /\ blockIdx' = 1
            \/ inQuery /\ pc' = "blocks" /\ blockIdx' = blockIdx + 1]_vars
    /\ [][(inQuery /\ pc # "awaitModel"
           /\ Len(conversationHistory') > Len(h)) =>
            /\ blockIdx <= Len(response)
            /\ Len(conversationHistory') = Len(h) + 1
            /\ turnFor(response[blockIdx],
                       conversationHistory'[Len(conversationHistory')])]_vars
    /\ [](pc = "callTool" =>
            /\ pending = {Len(h)}
            /\ h[Len(h)].id = response[blockIdx].id
            /\ \A j \in 1..(blockIdx - 1) :
                   response[j].type = "tool_use" =>
                       \E k \in 1..Len(h) :
                           isOutcome(k) /\ h[k].id = response[j].id)
    /\ [](pc # "callTool" => pending = {})
    /\ [](\A a, b \in 1..Len(h) :
            (a < b /\ h[a].id > 0 /\ h[b].id > 0) => h[a].id <= h[b].id)

\* the invocation for the second tool_use block of a response is
\* outstanding, the first block having been invoked and answered
C20_Witness ==
    /\ pc = "callTool"
    /\ blockIdx = 2
    /\ response[1].type = "tool_use"
    /\ \E i, k \in 1..Len(h) :
           /\ i < k /\ k < Len(h)
           /\ isRequest(i) /\ h[i].id = response[1].id
           /\ isOutcome(k) /\ h[k].id = response[1].id

(***************************************************************************)
(* Properties of the flexible strategy, of the catalog and of shutdown.    *)
(***************************************************************************)
\* ignoring case, base is a substring of segment or segment one of base
segmentMatch(segment, base) ==
    \/ includes(toLowerCase(segment), toLowerCase(base))
    \/ includes(toLowerCase(base), toLowerCase(segment))

\* C21: the flexible strategy matches the entry p_t exactly when, ignoring
\* case, the requested name is a substring of t, the part after the
\* provider separator, or t is a substring of the requested name; a name
\* that occurs only in the provider prefix matches nothing, so a request
\* that neither the exact nor the suffix strategy serves is found exactly
\* when some entry matches in that way.
C21_FlexibleMatchesFinalSegment ==
    (mode = "multi" /\ hasResolved) =>
        /\ \A e \in Entries :
               flexibleMatch(prefixedName(providerOf(e), localOf(e)),
                             resolved.baseName)
                   <=> segmentMatch(localOf(e), resolved.baseName)
        /\ (exactHits = {} /\ suffixHits = {}) =>
               (resolved.result # Undefined <=>
                    \E e \in Entries :
                        segmentMatch(localOf(e), resolved.baseName))

\* C22: after a round with a tool_use block and iteration < maxIterations
\* another model call is made, with the history as the round left it; the
\* history a model call is sent holds, for every tool_use block of the
\* round before, exactly one tool_result turn, and no tool_use turn
\* without its tool_result turn.
C22_NextCallSeesOutcomes ==
    /\ [][(roundDone /\ requestsTool /\ iteration < maxIterations
           /\ pc' # pc) =>
            /\ pc' = "awaitModel"
            /\ iteration' = iteration + 1
            /\ conversationHistory' = h]_vars
    /\ [](pc = "awaitModel" =>
            /\ pending = {}
            /\ modelCalls >= 1 =>
                   \A j \in 1..Len(response) :
                       response[j].type = "tool_use" =>
                           Cardinality(OutcomesOf(response[j].id)) = 1)

\* the second model call of a query is awaited after a round with two
\* tool_use blocks, one of them invoked and answered
C22_Witness ==
    /\ pc = "awaitModel"
    /\ modelCalls = 1
    /\ Len(response) = 2
    /\ response[1].type = "tool_use" /\ response[2].type = "tool_use"
    /\ \E i \in 1..Len(h) : isRequest(i) /\ h[i].id = response[1].id
    /\ \E k \in 1..Len(h) :
           isOutcome(k) /\ h[k].id = response[1].id /\ ~h[k].is_error

RECURSIVE catalogOf(_)
\* the prefixed names of the first n registrations, one provider after the
\* other, each in the order the provider listed them
catalogOf(n) ==
    IF n = 0 THEN <<>>
    ELSE catalogOf(n - 1) \o
         [i \in 1..Len(registered[n].tools) |->
             registered[n].serverType \o <<"_">> \o registered[n].tools[i]]

\* C23: in multi mode the catalog is the concatenation, in registration
\* order, of every provider's prefixed names in the order listed; a
\* registration only appends (nothing reordered, removed or de-duplicated),
\* so two providers with the same local name both keep their entry.
C23_CatalogIsConcatenation ==
    /\ [](mode = "multi" => allTools = catalogOf(Len(registered)))
    /\ [][(mode' = "multi" /\ registered' # registered) =>
            /\ isPrefixOf(allTools, allTools')
            /\ Len(allTools') =
                   Len(allTools) + Len(registered'[Len(registered')].tools)]_vars

\* two providers list the same local name after another one; both entries
\* are in the catalog
C23_Witness ==
    /\ mode = "multi"
    /\ Len(registered) = 2
    /\ registered[1].serverType # registered[2].serverType
    /\ registered[1].tools = <<<<"r">>, <<"w">>>>
    /\ registered[2].tools = <<<<"w">>>>
    /\ Len(allTools) = 3

\* the handles of mcpClients that cleanup did not close
unclosed == {i \in 1..Len(mcpClients) : ~InSeq(mcpClients[i], closed)}

\* C24: when main is done, after the quit command or after a connection
\* that failed at startup, cleanup has closed every registered handle, each
\* once, also when the close of one handle failed: no handle but the one
\* whose close failed is left open.
C24_CleanupClosesEveryHandle ==
    mainPc = "done" =>
        /\ \A i, j \in 1..Len(closed) : closed[i] = closed[j] => i = j
        /\ \A i \in 1..Len(closed) : InSeq(closed[i], mcpClients)
        /\ Cardinality(unclosed) <= 1

(***************************************************************************)
(* The single-provider client of src/index.ts.  It has one handle,         *)
(* this.mcp, kept here under the key "default", and its catalog this.tools *)
(* is allTools.  Its processQuery has no name resolution and no try block  *)
(* around the tool call: a call that throws reaches the catch of the whole *)
(* method.                                                                 *)
(***************************************************************************)
\* main: connectToServer answers, chatLoop starts
IndexMain ==
    /\ mainPc = "start"
    /\ \E tools \in ChatListings :
           /\ allTools' = tools
           /\ registered' =
                  Append(registered, [serverType |-> default, tools |-> tools])
    /\ mode' = "single"
    /\ mcpClients' = <<default>>
    /\ mainPc' = "chat"
    /\ pc' = "idle"
    /\ UNCHANGED <<conversationHistory, iteration, finalResponse, response,
                   blockIdx, toolUseDetected, fullToolName, returned, resolved,
                   lastCall, nextId, queries, modelCalls, closed>>

\* main: connectToServer rethrows, main goes to its finally
IndexMainConnectFails ==
    /\ mainPc = "start"
    /\ mainPc' = "cleanup"
    /\ UNCHANGED <<registryVars, queryVars, closed>>

IndexStartQuery ==
    /\ mainPc = "chat"
    /\ pc = "idle"
    /\ queries < MaxQueries
    /\ queries' = queries + 1
    /\ push(UserText)
    /\ finalResponse' = <<>>
    /\ modelCalls' = 0
    /\ IF loopCondition(0)
       THEN /\ iteration' = 1
            /\ pc' = "awaitModel"
            /\ returned' = "pending"
       ELSE /\ iteration' = 0
            /\ pc' = "idle"
            /\ returned' = "buffer"
    /\ UNCHANGED <<mainPc, registryVars, response, blockIdx, toolUseDetected,
                   fullToolName, resolved, lastCall, nextId, closed>>

IndexModelResponds ==
    /\ pc = "awaitModel"
    /\ \E blocks \in SeqsUpTo(Blocks, MaxBlocks) :
           /\ nextId + Len(blocks) <= MaxTotalBlocks
           /\ response' = WithIds(blocks, nextId)
           /\ nextId' = nextId + Len(blocks)
    /\ modelCalls' = modelCalls + 1
    /\ toolUseDetected' = FALSE
    /\ blockIdx' = 1
    /\ pc' = "blocks"
    /\ UNCHANGED <<mainPc, registryVars, conversationHistory, iteration,
                   finalResponse, fullToolName, returned, resolved, lastCall,
                   queries, closed>>

\* the catch of processQuery: the error text is returned
IndexCatch ==
    /\ returned' = "error"
    /\ pc' = "idle"
    /\ UNCHANGED <<mainPc, registryVars, conversationHistory, iteration,
                   finalResponse, response, blockIdx, toolUseDetected,
                   fullToolName, resolved, nextId, queries, closed>>

\* messages.create rejects
IndexModelFails ==
    /\ pc = "awaitModel"
    /\ modelCalls' = modelCalls + 1
    /\ IndexCatch
    /\ UNCHANGED lastCall

IndexTextStep ==
    /\ pc = "blocks"
    /\ blockIdx <= Len(response)
    /\ content.type = "text"
    /\ finalResponse' = Append(finalResponse, "text")
    /\ push(AssistantText)
    /\ blockIdx' = blockIdx + 1
    /\ UNCHANGED <<mainPc, registryVars, pc, iteration, response,
                   toolUseDetected, fullToolName, returned, resolved, lastCall,
                   nextId, queries, modelCalls, closed>>

\* content.type === "tool_use", up to the await of this.mcp.callTool
IndexToolUseStep ==
    /\ pc = "blocks"
    /\ blockIdx <= Len(response)
    /\ content.type = "tool_use"
    /\ toolUseDetected' = TRUE
    /\ push(AssistantToolRequest(content.id, content.name))
    /\ fullToolName' = content.name
    /\ pc' = "callTool"
    /\ UNCHANGED <<mainPc, registryVars, iteration, finalResponse, response,
                   blockIdx, returned, resolved, lastCall, nextId, queries,
                   modelCalls, closed>>

\* this.mcp.callTool answers: the tool_result turn is pushed
IndexToolReturns ==
    /\ pc = "callTool"
    /\ lastCall' = Invokes(default, fullToolName)
    /\ push(ToolOutcome(content.id, FALSE))
    /\ finalResponse' = Append(finalResponse, "used")
    /\ blockIdx' = blockIdx + 1
    /\ pc' = "blocks"
    /\ UNCHANGED <<mainPc, registryVars, iteration, response, toolUseDetected,
                   fullToolName, returned, resolved, nextId, queries,
                   modelCalls, closed>>

\* this.mcp.callTool rejects: nothing catches it before the catch of
\* processQuery
IndexToolThrows ==
    /\ pc = "callTool"
    /\ lastCall' = Invokes(default, fullToolName)
    /\ IndexCatch
    /\ UNCHANGED modelCalls

IndexEndRound ==
    /\ pc = "blocks"
    /\ blockIdx > Len(response)
    /\ IF ~toolUseDetected
       THEN /\ returned' = "buffer"
            /\ pc' = "idle"
            /\ UNCHANGED <<iteration, finalResponse>>
       ELSE /\ finalResponse' =
                   IF iteration = maxIterations
                   THEN Append(finalResponse, "max")
                   ELSE finalResponse
            /\ IF loopCondition(iteration)
               THEN /\ iteration' = iteration + 1
                    /\ pc' = "awaitModel"
                    /\ UNCHANGED returned
               ELSE /\ returned' = "buffer"
                    /\ pc' = "idle"
                    /\ UNCHANGED iteration
    /\ UNCHANGED <<mainPc, registryVars, conversationHistory, response,
                   blockIdx, toolUseDetected, fullToolName, resolved, lastCall,
                   nextId, queries, modelCalls, closed>>

IndexClear ==
    /\ mainPc = "chat"
    /\ pc = "idle"
    /\ conversationHistory # <<>>
    /\ conversationHistory' = <<>>
    /\ UNCHANGED <<mainPc, registryVars, pc, iteration, finalResponse, response,
                   blockIdx, toolUseDetected, fullToolName, returned, resolved,
                   lastCall, nextId, queries, modelCalls, closed>>

IndexQuit ==
    /\ mainPc = "chat"
    /\ pc = "idle"
    /\ mainPc' = "cleanup"
    /\ pc' = "none"
    /\ UNCHANGED <<registryVars, conversationHistory, iteration, finalResponse,
                   response, blockIdx, toolUseDetected, fullToolName, returned,
                   resolved, lastCall, nextId, queries, modelCalls, closed>>

\* cleanup: this.mcp.close() answers, or throws into the catch of cleanup
IndexCleanup ==
    /\ mainPc = "cleanup"
    /\ closed' \in {<<default>>, <<>>}
    /\ mainPc' = "done"
    /\ UNCHANGED <<registryVars, queryVars>>

IndexNext ==
    \/ IndexMain
    \/ IndexMainConnectFails
    \/ IndexStartQuery
    \/ IndexModelResponds
    \/ IndexModelFails
    \/ IndexTextStep
    \/ IndexToolUseStep
    \/ IndexToolReturns
    \/ IndexToolThrows
    \/ IndexEndRound
    \/ IndexClear
    \/ IndexQuit
    \/ IndexCleanup

SpecIndex == Init /\ [][IndexNext]_vars

\* every tool_use turn of the history is followed by a tool_result turn
\* with its id
paired ==
    \A i \in 1..Len(h) :
        isRequest(i) =>
            \E k \in (i + 1)..Len(h) : isOutcome(k) /\ h[k].id = h[i].id

\* C25: in the client of src/index.ts a failing tool invocation is not
\* fatal and pairing is kept: whenever a model call is awaited or the query
\* has returned, every tool_use turn is followed by a tool_result turn with
\* its id, and the step that ends a tool call, thrown or not, goes on to
\* the next block of the round.
C25_IndexToolFailureNotFatal ==
    /\ [](pc \in {"awaitModel", "idle"} => paired)
    /\ [][(pc = "callTool" /\ pc' # pc) =>
            /\ pc' = "blocks"
            /\ blockIdx' = blockIdx + 1
            /\ returned' = "pending"]_vars

\* C26: findToolByName invents no name and changes no state: for every
\* requested name and every catalog main builds (the catalog is fixed once
\* the first query starts) it returns undefined or an entry; the step
\* of processQuery that calls it leaves the catalog and the handle map as
\* they were and changes the history only by the one turn processQuery
\* itself pushes; so the name handed to callTool is a catalog entry.
C26_ResolutionReturnsCatalogEntry ==
    /\ [](queries = 0 =>
            \A baseName \in RequestedNames :
                \/ findToolByName(allTools, baseName) = Undefined
                \/ InSeq(findToolByName(allTools, baseName), allTools))
    /\ [][queries > 0 => allTools' = allTools]_vars
    /\ [][resolved' # resolved =>
            /\ resolved'.result = Undefined \/ InSeq(resolved'.result, allTools)
            /\ UNCHANGED <<allTools, mcpClients, mode>>
            /\ isPrefixOf(h, conversationHistory')
            /\ Len(conversationHistory') = Len(h) + 1]_vars
    /\ [](pc = "callTool" =>
            /\ InSeq(fullToolName, allTools)
            /\ fullToolName = resolved.result)

\* callTool is awaited with a catalog entry that is not the name the model
\* asked for
C26_Witness ==
    /\ pc = "callTool"
    /\ fullToolName # resolved.baseName
    /\ InSeq(fullToolName, allTools)
    /\ Len(allTools) = 2

====
